---- MODULE Spec2Model ----
(***************************************************************************)
(* Site Memory Helper (bookmarklet.js): start-up storage detection, the    *)
(* overlay with its five checkboxes, the "Clear selected" handler and      *)
(* updateStats, as tasks of the page's event loop.  A task runs from the   *)
(* point where it resumes to its next await in one step; which suspended   *)
(* task resumes next is the host's choice.  The page's storage is changed  *)
(* by the bookmarklet alone.                                               *)
(***************************************************************************)
EXTENDS Integers, Sequences, FiniteSets, TLC

\* ------------------------------------------------------------------ bounds
\* entries of localStorage, of sessionStorage, databases of IndexedDB at load
MaxItems == 1
\* caches of Cache Storage, service-worker registrations at load
MaxEntries == 1
\* cookies visible to the page at load
MaxCookies == 1
\* storage surfaces that hold anything at load
MaxSurfaces == 2
\* abnormal conditions of the environment (an API absent, throwing, ...)
MaxFaults == 1
\* clicks on "Clear selected"
MaxClicks == 2
\* runs of the click handler that are suspended at an await at a time
MaxInFlight == 1

\* ------------------------------------------------------- the environment
\* the five checkboxes of the overlay, in the order the handler reads them
Boxes == {"l", "s", "c", "w", "k"}

\* How a storage API behaves on this page:
\*   ok        present and working
\*   absent    not defined in this environment (for localStorage and
\*             sessionStorage this is "throws": the first access throws)
\*   throws    every access throws (or the returned promise rejects)
\*   readonly  reads work, every mutating call throws or rejects
\*   blocked   (service workers) "serviceWorker" in navigator holds, reading
\*             navigator.serviceWorker throws
\*   nodbs     (IndexedDB) indexedDB exists, indexedDB.databases does not
ApiModes ==
  [ls  : {"ok", "throws", "readonly"},
   ss  : {"ok", "throws", "readonly"},
   c   : {"ok", "absent", "throws", "readonly"},
   sw  : {"ok", "absent", "throws", "readonly", "blocked"},
   idb : {"ok", "absent", "throws", "nodbs"},
   ck  : {"ok", "throws", "readonly"},
   est : {"ok", "absent", "throws"}]

\* the document when the bookmarklet starts: with a body, still loading
\* without one, or loaded without one
DocModes == {"body", "loading", "nobody"}

\* A cookie the page can see, by what decides whether an expiring assignment
\* removes it: its Path and its Domain.  The pages considered hold cookies
\* with Path=/ that are host-only or were set for a parent domain.
CookiePaths == {"/"}
CookieDomains == {"hostOnly", "parent"}
Cookies == [id : 1..MaxCookies, path : CookiePaths, domain : CookieDomains]

Readable(mode) == mode \in {"ok", "readonly"}

VARIABLES
  env,        \* how each storage API behaves (fixed for the page)
  doc,        \* the document: "loading" (no body yet), "parsed" (a body,
              \* DOMContentLoaded not yet fired), "body", "nobody"
  store,      \* the page's storage: [ls, ss, c, sw, idb, ck]
  s,          \* the start-up summary record s
  mainPc,     \* where the start-up flow is
  attached,   \* the overlay o is in the document
  pendingAdd, \* addOverlay is scheduled: "none", "dcl" or "timeout"
  disabled,   \* each checkbox's disabled attribute
  checked,    \* each checkbox's checked state
  stats,      \* what #stats shows: <<>> or <<the six counts>>
  out,        \* what #out shows
  u0,         \* the initial, un-awaited updateStats() call
  handlers,   \* the runs of the #run onclick handler that are suspended at
              \* an await or ended in the last step, in click order
  clicks,     \* clicks on "Clear selected" so far
  unhandled   \* the rejections nobody handles: of the promise of the
              \* updateStats() call of line 392, of a run of the handler

vars == <<env, doc, store, s, mainPc, attached, pendingAdd, disabled, checked,
          stats, out, u0, handlers, clicks, unhandled>>

\* ----------------------------------------------------------------- helpers
Min(S) == CHOOSE x \in S : \A y \in S : x <= y

\* the keys of a store in enumeration order
RECURSIVE KeyList(_)
KeyList(S) == IF S = {} THEN <<>> ELSE <<Min(S)>> \o KeyList(S \ {Min(S)})

ZeroCounts == [ls |-> 0, ss |-> 0, c |-> 0, sw |-> 0, idb |-> 0, ck |-> 0]

\* document.cookie.split(";").filter(c => c.trim()).length, 0 for ""
CookieCount(jar) == Cardinality(jar)

\* ------------------------------------------------------ start-up detection
\* Each DetectFrom... runs the detection from one try block to the next
\* await and gives the summary record and where the flow stands.
DetectEst(sr) ==
  [s |-> sr, pc |-> IF env.est = "absent" THEN "render" ELSE "await_est"]

DetectCookies(sr, st) ==
  DetectEst([sr EXCEPT !.ck = IF Readable(env.ck) THEN CookieCount(st.ck) ELSE 0])

DetectIdb(sr, st) ==
  IF env.idb \in {"absent", "nodbs"}
    THEN DetectCookies(sr, st)
    ELSE [s |-> sr, pc |-> "await_idb"]

DetectSw(sr, st) ==
  IF env.sw \in {"absent", "blocked"}
    THEN DetectIdb(sr, st)
    ELSE [s |-> sr, pc |-> "await_sw"]

DetectCaches(sr, st) ==
  IF env.c = "absent" THEN DetectSw(sr, st) ELSE [s |-> sr, pc |-> "await_c"]

DetectStart(sr, st) ==
  DetectCaches([sr EXCEPT !.ls = IF Readable(env.ls) THEN st.ls ELSE 0,
                          !.ss = IF Readable(env.ss) THEN st.ss ELSE 0], st)

DetectResume(pc, sr, st) ==
  CASE pc = "start" -> DetectStart(sr, st)
    [] pc = "await_c" ->
         DetectSw([sr EXCEPT !.c = IF Readable(env.c)
                                     THEN Cardinality(st.c) ELSE 0], st)
    [] pc = "await_sw" ->
         DetectIdb([sr EXCEPT !.sw = IF Readable(env.sw)
                                       THEN Cardinality(st.sw) ELSE 0], st)
    [] pc = "await_idb" ->
         DetectCookies([sr EXCEPT !.idb = IF env.idb = "ok" THEN st.idb ELSE 0], st)
    [] pc = "await_est" ->
         [s |-> [sr EXCEPT !.est = IF env.est = "ok" THEN "estimate" ELSE "null"],
          pc |-> "render"]

\* ------------------------------------------------------------- updateStats
\* Each UFrom... runs updateStats from one block to the next await; att says
\* whether the overlay is in the document when the block runs.  An awaited
\* call reads the storage when the task resumes.
USuspend(pc, cnt) ==
  [pc |-> pc, cnt |-> cnt, wrote |-> FALSE, threw |-> "", shown |-> ZeroCounts]

\* an exception no try block of updateStats catches: its promise is rejected
UThrow(expr, cnt) ==
  [pc |-> "rejected", cnt |-> cnt, wrote |-> FALSE, threw |-> expr,
   shown |-> ZeroCounts]

\* lines 357-388: read the synchronous counts and write #stats, which
\* d.getElementById finds only while o is in the document
UWrite(cnt, st, att) ==
  IF att
    THEN [pc |-> "done", cnt |-> cnt, wrote |-> TRUE, threw |-> "",
          shown |-> [ls  |-> IF Readable(env.ls) THEN st.ls ELSE 0,
                     ss  |-> IF Readable(env.ss) THEN st.ss ELSE 0,
                     c   |-> cnt.c,
                     sw  |-> cnt.sw,
                     idb |-> cnt.idb,
                     ck  |-> IF Readable(env.ck) THEN CookieCount(st.ck) ELSE 0]]
    ELSE UThrow("stats.innerHTML", cnt)

UFromIdb(cnt, st, att) ==
  IF env.idb = "absent" THEN UThrow("indexedDB.databases", cnt)
  ELSE IF env.idb = "nodbs" THEN UWrite(cnt, st, att)
  ELSE USuspend("u_idb", cnt)

UFromSw(cnt, st, att) ==
  IF env.sw = "blocked" THEN UThrow("navigator.serviceWorker", cnt)
  ELSE IF env.sw = "absent" THEN UFromIdb(cnt, st, att)
  ELSE USuspend("u_sw", cnt)

UFromCaches(cnt, st, att) ==
  IF env.c = "absent" THEN UFromSw(cnt, st, att) ELSE USuspend("u_c", cnt)

ZeroCnt == [c |-> 0, sw |-> 0, idb |-> 0]

updateStats(st, att) == UFromCaches(ZeroCnt, st, att)

UResume(pc, cnt, st, att) ==
  CASE pc = "u_c" ->
         UFromSw([cnt EXCEPT !.c = IF Readable(env.c)
                                     THEN Cardinality(st.c) ELSE 0], st, att)
    [] pc = "u_sw" ->
         UFromIdb([cnt EXCEPT !.sw = IF Readable(env.sw)
                                       THEN Cardinality(st.sw) ELSE 0], st, att)
    [] pc = "u_idb" ->
         UWrite([cnt EXCEPT !.idb = IF env.idb = "ok" THEN st.idb ELSE 0], st, att)

UPcs == {"u_c", "u_sw", "u_idb"}

\* ------------------------------------------------------------ clearCookies
\* the Path and Domain attributes clearCookies writes its expiring cookies
\* with: "/" and location.pathname; no Domain, location.hostname and
\* "." + location.hostname (the leading dot names the same domain)
ClearPaths == {"/", "pathname"}
ClearDomains == {"hostOnly", "hostname"}

\* the cookies an expiring assignment of clearCookies removes
Expired(jar) ==
  {ck \in jar : ck.path \in ClearPaths /\ ck.domain \in ClearDomains}

\* ------------------------------------------------------- the #run handler
\* A run of the handler: where it stands, its log, the rest of the list its
\* for loop walks, updateStats' three locals, the expression that threw
\* when it ended in a rejection, and what it has seen so far: the boxes
\* checked when it was triggered (trig), what it read from each checkbox
\* (sel), how many entries the surface held when it read the box as checked
\* (had, -1 otherwise), and what its updateStats wrote (report).
NewHandler ==
  [pc |-> "start", log |-> <<>>, todo |-> <<>>, cnt |-> ZeroCnt,
   threw |-> "",
   trig |-> {b \in Boxes : checked[b]},
   sel |-> [b \in Boxes |-> "unread"],
   had |-> [b \in Boxes |-> -1],
   report |-> <<>>]

\* the entries of the surface a checkbox stands for
Entries(st, b) ==
  CASE b = "l" -> st.ls
    [] b = "s" -> st.ss
    [] b = "c" -> Cardinality(st.c)
    [] b = "w" -> Cardinality(st.sw)
    [] b = "k" -> CookieCount(st.ck)

\* a log that takes each new line at its front
Log_Prepend(w, line) == [w EXCEPT !.h.log = <<line>> \o @]

\* The world a step of a handler works on: the storage, the handler's own
\* record, #out and #stats.
Log(w, line) == [w EXCEPT !.h.log = Append(@, line)]
Read(w, b, v) ==
  [w EXCEPT !.h.sel[b] = v,
            !.h.had[b] = IF v = "yes" THEN Entries(w.store, b) ELSE @]
Suspend(w, pc) == [w EXCEPT !.h.pc = pc]
\* an exception outside every try block: the handler's promise is rejected
HThrow(w, expr) == [w EXCEPT !.h.pc = "rejected", !.h.threw = expr]
Ended(w) == w.h.pc = "rejected"

\* a handler that takes every box as checked, whatever the user ticked
IsChecked_Always(b) == TRUE

\* d.getElementById(b): the checkbox, or null when o is not in the document
BoxFound(b) == attached
\* d.getElementById(b).checked
IsChecked(b) == checked[b]

NoneSelected == [kind |-> "none", lines |-> <<>>]
Results(log) == [kind |-> "results", lines |-> log]

\* await updateStats(), up to its first await
HUpdateStats(w) ==
  LET r == updateStats(w.store, attached)
  IN [w EXCEPT !.h.pc = r.pc, !.h.cnt = r.cnt, !.h.threw = r.threw,
               !.h.report = IF r.wrote THEN <<r.shown>> ELSE @,
               !.stats = IF r.wrote THEN <<r.shown>> ELSE @]

\* lines 459-470: write the results, then update the stats
HDisplay(w) ==
  IF Ended(w) THEN w
  ELSE HUpdateStats([w EXCEPT !.out = IF Len(w.h.log) = 0
                                        THEN NoneSelected
                                        ELSE Results(w.h.log)])

\* a cookie block that treats an empty document.cookie as an error
ClearCookiesBlock_EmptyFails(w) ==
  IF ~Readable(env.ck) \/ CookieCount(w.store.ck) = 0 \/ env.ck = "readonly"
    THEN Log(w, "Cookie cleanup failed")
  ELSE Log([w EXCEPT !.store.ck = @ \ Expired(@)], "Cookie cleanup attempted")

\* lines 451-456: try { await clearCookies(); ... } catch
ClearCookiesBlock(w) ==
  IF ~Readable(env.ck) THEN Log(w, "Cookie cleanup failed")
  ELSE IF CookieCount(w.store.ck) = 0
    THEN Log(w, "Cookie cleanup attempted")
  ELSE IF env.ck = "readonly"
    THEN Log(w, "Cookie cleanup failed")
  ELSE Log([w EXCEPT !.store.ck = @ \ Expired(@)], "Cookie cleanup attempted")

\* lines 449-457
HFromK(w) ==
  IF Ended(w) THEN w
  ELSE IF ~BoxFound("k") THEN HThrow(w, "getElementById(k).checked")
  ELSE IF ~IsChecked("k") THEN HDisplay(Read(w, "k", "no"))
  ELSE HDisplay(ClearCookiesBlock(Read(w, "k", "yes")))

\* lines 440-446, the for loop: the next r.unregister(), or the status line
SwLoop(w) ==
  IF w.h.todo = <<>>
    THEN HFromK(Log(w, "Service workers unregistered"))
    ELSE Suspend(w, "w_del")

\* after await r.unregister()
SwUnregistered(w) ==
  IF env.sw = "readonly"
    THEN HFromK(Log([w EXCEPT !.h.todo = <<>>], "Service workers failed"))
    ELSE SwLoop([w EXCEPT !.store.sw = @ \ {Head(w.h.todo)},
                          !.h.todo = Tail(@)])

\* after await navigator.serviceWorker.getRegistrations()
SwListed(w) ==
  IF ~Readable(env.sw)
    THEN HFromK(Log(w, "Service workers failed"))
    ELSE SwLoop([w EXCEPT !.h.todo = KeyList(w.store.sw)])

\* lines 437-447
HFromW(w) ==
  IF Ended(w) THEN w
  ELSE IF ~BoxFound("w") THEN HThrow(w, "getElementById(w).checked")
  ELSE IF ~IsChecked("w") THEN HFromK(Read(w, "w", "no"))
  ELSE IF env.sw \in {"absent", "blocked"}
    THEN HFromK(Log(Read(w, "w", "yes"), "Service workers failed"))
  ELSE Suspend(Read(w, "w", "yes"), "w_list")

\* lines 428-434, the for loop: the next caches.delete(k), or the status line
CacheLoop(w) ==
  IF w.h.todo = <<>>
    THEN HFromW(Log(w, "Cache Storage cleared"))
    ELSE Suspend(w, "c_del")

\* after await caches.delete(k)
CacheDeleted(w) ==
  IF env.c = "readonly"
    THEN HFromW(Log([w EXCEPT !.h.todo = <<>>], "Cache Storage failed"))
    ELSE CacheLoop([w EXCEPT !.store.c = @ \ {Head(w.h.todo)},
                             !.h.todo = Tail(@)])

\* after await caches.keys()
CacheListed(w) ==
  IF ~Readable(env.c)
    THEN HFromW(Log(w, "Cache Storage failed"))
    ELSE CacheLoop([w EXCEPT !.h.todo = KeyList(w.store.c)])

\* lines 425-435
HFromC(w) ==
  IF Ended(w) THEN w
  ELSE IF ~BoxFound("c") THEN HThrow(w, "getElementById(c).checked")
  ELSE IF ~IsChecked("c") THEN HFromW(Read(w, "c", "no"))
  ELSE IF env.c = "absent"
    THEN HFromW(Log(Read(w, "c", "yes"), "Cache Storage failed"))
  ELSE Suspend(Read(w, "c", "yes"), "c_keys")

\* a sessionStorage block without its try/catch
ClearSessionBlock_NoCatch(w) ==
  IF env.ss = "ok"
    THEN Log([w EXCEPT !.store.ss = 0], "sessionStorage cleared")
    ELSE HThrow(w, "sessionStorage.clear")

\* lines 417-422: try { sessionStorage.clear(); ... } catch
ClearSessionBlock(w) ==
  IF env.ss = "ok"
    THEN Log([w EXCEPT !.store.ss = 0], "sessionStorage cleared")
    ELSE Log(w, "sessionStorage failed")

\* a sessionStorage block that does not consult its checkbox
HFromS_Unconditional(w) ==
  IF Ended(w) THEN w
  ELSE IF ~BoxFound("s") THEN HThrow(w, "getElementById(s).checked")
  ELSE HFromC(ClearSessionBlock(Read(w, "s", IF IsChecked("s") THEN "yes" ELSE "no")))

\* lines 415-423
HFromS(w) ==
  IF Ended(w) THEN w
  ELSE IF ~BoxFound("s") THEN HThrow(w, "getElementById(s).checked")
  ELSE IF ~IsChecked("s") THEN HFromC(Read(w, "s", "no"))
  ELSE HFromC(ClearSessionBlock(Read(w, "s", "yes")))

\* a localStorage block that logs success without calling clear()
ClearLocalBlock_LogOnly(w) ==
  IF env.ls = "ok"
    THEN Log(w, "localStorage cleared")
    ELSE Log(w, "localStorage failed")

\* lines 407-412: try { localStorage.clear(); ... } catch
ClearLocalBlock(w) ==
  IF env.ls = "ok"
    THEN Log([w EXCEPT !.store.ls = 0], "localStorage cleared")
    ELSE Log(w, "localStorage failed")

\* lines 405-413
HFromL(w) ==
  IF ~BoxFound("l") THEN HThrow(w, "getElementById(l).checked")
  ELSE IF ~IsChecked("l") THEN HFromS(Read(w, "l", "no"))
  ELSE HFromS(ClearLocalBlock(Read(w, "l", "yes")))

\* a suspended handler resumes
HResume(w) ==
  CASE w.h.pc = "c_keys" -> CacheListed(w)
    [] w.h.pc = "c_del" -> CacheDeleted(w)
    [] w.h.pc = "w_list" -> SwListed(w)
    [] w.h.pc = "w_del" -> SwUnregistered(w)
    [] w.h.pc \in UPcs ->
         LET r == UResume(w.h.pc, w.h.cnt, w.store, attached)
         IN [w EXCEPT !.h.pc = r.pc, !.h.cnt = r.cnt, !.h.threw = r.threw,
                      !.h.report = IF r.wrote THEN <<r.shown>> ELSE @,
                      !.stats = IF r.wrote THEN <<r.shown>> ELSE @]

HPcs == {"c_keys", "c_del", "w_list", "w_del"} \cup UPcs

\* ------------------------------------------------------------- the overlay
\* checkboxes that are never disabled
chk_NeverDisabled(count) == FALSE

\* lines 256-260: chk(id, label, description, x) with x = (count === 0)
chk(count) == count = 0

DisabledBoxes(sr) ==
  [b \in Boxes |->
     CASE b = "l" -> chk(sr.ls)
       [] b = "s" -> chk(sr.ss)
       [] b = "c" -> chk(sr.c)
       [] b = "w" -> chk(sr.sw)
       [] b = "k" -> chk(sr.ck)]

\* d.body
HasBody == doc \in {"body", "parsed"}

\* --------------------------------------------------------------- the page
Faults(e, dm) ==
  Cardinality({f \in DOMAIN e : e[f] # "ok"}) + (IF dm = "body" THEN 0 ELSE 1)

Stores ==
  [ls : 0..MaxItems, ss : 0..MaxItems, idb : 0..MaxItems,
   c : {1..n : n \in 0..MaxEntries}, sw : {1..n : n \in 0..MaxEntries},
   ck : {jar \in SUBSET Cookies : Cardinality(jar) <= MaxCookies}]

Surfaces(st) ==
  (IF st.ls > 0 THEN 1 ELSE 0) + (IF st.ss > 0 THEN 1 ELSE 0)
  + (IF st.idb > 0 THEN 1 ELSE 0) + (IF st.c # {} THEN 1 ELSE 0)
  + (IF st.sw # {} THEN 1 ELSE 0) + (IF st.ck # {} THEN 1 ELSE 0)

Init ==
  /\ env \in ApiModes
  /\ doc \in DocModes
  /\ Faults(env, doc) <= MaxFaults
  /\ store \in Stores
  /\ Surfaces(store) <= MaxSurfaces
  /\ s = [ls |-> 0, ss |-> 0, c |-> 0, sw |-> 0, idb |-> 0, ck |-> 0,
          est |-> "null"]
  /\ mainPc = "start"
  /\ attached = FALSE
  /\ pendingAdd = "none"
  /\ disabled = [b \in Boxes |-> FALSE]
  /\ checked = [b \in Boxes |-> FALSE]
  /\ stats = <<>>
  /\ out = [kind |-> "empty", lines |-> <<>>]
  /\ u0 = [pc |-> "idle", cnt |-> ZeroCnt, threw |-> ""]
  /\ handlers = <<>>
  /\ clicks = 0
  /\ unhandled = {}

\* a promise rejected with no handler attached: an unhandled rejection
Rejection(fn, expr) == [fn |-> fn, threw |-> expr]

\* a run that has ended leaves nothing behind: its record is dropped by the
\* step after the one it ended in
IsLive(h) == h.pc \in HPcs
Forget == handlers' = SelectSeq(handlers, IsLive)

\* lines 234-392: build the overlay from s, attach it or schedule addOverlay,
\* install the call updateStats() without awaiting it
Render(sr) ==
  LET att == HasBody
      u == updateStats(store, att)
  IN /\ s' = sr
     /\ mainPc' = "done"
     /\ disabled' = DisabledBoxes(sr)
     /\ attached' = att
     /\ pendingAdd' = IF att THEN "none"
                      ELSE IF doc = "loading" THEN "dcl" ELSE "timeout"
     /\ u0' = [pc |-> u.pc, cnt |-> u.cnt, threw |-> u.threw]
     /\ stats' = IF u.wrote THEN <<u.shown>> ELSE stats
     /\ unhandled' = IF u.pc = "rejected"
                       THEN unhandled \cup {Rejection("updateStats", u.threw)}
                       ELSE unhandled
     /\ Forget
     /\ UNCHANGED <<env, doc, store, checked, out, clicks>>

\* the start-up flow, from where it stands to its next await
Main ==
  /\ mainPc # "done"
  /\ LET r == DetectResume(mainPc, s, store)
     IN IF r.pc = "render"
          THEN Render(r.s)
          ELSE /\ s' = r.s
               /\ mainPc' = r.pc
               /\ Forget
               /\ UNCHANGED <<env, doc, store, attached, pendingAdd, disabled,
                              checked, stats, out, u0, clicks, unhandled>>

\* the parser reaches <body>
BodyParsed ==
  /\ doc = "loading"
  /\ doc' = "parsed"
  /\ Forget
  /\ UNCHANGED <<env, store, s, mainPc, attached, pendingAdd, disabled, checked,
                 stats, out, u0, clicks, unhandled>>

\* lines 297-301: addOverlay
addOverlay(hasBody) == IF hasBody THEN TRUE ELSE attached

\* DOMContentLoaded fires, with or without a body; line 303's listener runs
DOMContentLoaded ==
  /\ doc \in {"loading", "parsed"}
  /\ doc' = IF doc = "parsed" THEN "body" ELSE "nobody"
  /\ IF pendingAdd = "dcl"
       THEN /\ attached' = addOverlay(doc = "parsed")
            /\ pendingAdd' = "none"
       ELSE UNCHANGED <<attached, pendingAdd>>
  /\ Forget
  /\ UNCHANGED <<env, store, s, mainPc, disabled, checked, stats, out, u0, unhandled, clicks>>

\* line 306: setTimeout(addOverlay, 0) fires
AddOverlayTimeout ==
  /\ pendingAdd = "timeout"
  /\ attached' = addOverlay(HasBody)
  /\ pendingAdd' = "none"
  /\ Forget
  /\ UNCHANGED <<env, doc, store, s, mainPc, disabled, checked, stats, out, u0, unhandled, clicks>>

\* the user ticks or unticks a checkbox of the visible overlay
Toggle(b) ==
  /\ mainPc = "done"
  /\ attached
  /\ ~disabled[b]
  /\ checked' = [checked EXCEPT ![b] = ~@]
  /\ Forget
  /\ UNCHANGED <<env, doc, store, s, mainPc, attached, pendingAdd, disabled,
                 stats, out, u0, clicks, unhandled>>

\* line 315: the x button, o.remove()
Close ==
  /\ mainPc = "done"
  /\ attached
  /\ attached' = FALSE
  /\ Forget
  /\ UNCHANGED <<env, doc, store, s, mainPc, pendingAdd, disabled, checked,
                 stats, out, u0, clicks, unhandled>>

\* the initial updateStats() resumes after an await
U0Resume ==
  /\ u0.pc \in UPcs
  /\ LET r == UResume(u0.pc, u0.cnt, store, attached)
     IN /\ u0' = [pc |-> r.pc, cnt |-> r.cnt, threw |-> r.threw]
        /\ stats' = IF r.wrote THEN <<r.shown>> ELSE stats
        /\ unhandled' = IF r.pc = "rejected"
                          THEN unhandled \cup {Rejection("updateStats", r.threw)}
                          ELSE unhandled
  /\ Forget
  /\ UNCHANGED <<env, doc, store, s, mainPc, attached, pendingAdd, disabled,
                 checked, out, clicks>>

\* line 402: a click on "Clear selected" of the visible overlay starts a run
\* of the handler, which goes on to its first await
Click ==
  /\ mainPc = "done"
  /\ attached
  /\ clicks < MaxClicks
  /\ Len(SelectSeq(handlers, IsLive)) < MaxInFlight
  /\ LET w == HFromL([store |-> store, h |-> NewHandler, out |-> out,
                      stats |-> stats])
     IN /\ handlers' = Append(SelectSeq(handlers, IsLive), w.h)
        /\ store' = w.store
        /\ out' = w.out
        /\ stats' = w.stats
        /\ unhandled' = IF w.h.pc = "rejected"
                          THEN unhandled \cup {Rejection("run", w.h.threw)}
                          ELSE unhandled
  /\ clicks' = clicks + 1
  /\ UNCHANGED <<env, doc, s, mainPc, attached, pendingAdd, disabled, checked,
                 u0>>

\* a suspended run of the handler resumes and goes on to its next await
HandlerResume(i) ==
  /\ handlers[i].pc \in HPcs
  /\ LET w == HResume([store |-> store, h |-> handlers[i], out |-> out,
                       stats |-> stats])
     IN /\ handlers' = SelectSeq(SubSeq(handlers, 1, i - 1), IsLive)
                        \o <<w.h>>
                        \o SelectSeq(SubSeq(handlers, i + 1, Len(handlers)), IsLive)
        /\ store' = w.store
        /\ out' = w.out
        /\ stats' = w.stats
        /\ unhandled' = IF w.h.pc = "rejected"
                          THEN unhandled \cup {Rejection("run", w.h.threw)}
                          ELSE unhandled
  /\ UNCHANGED <<env, doc, s, mainPc, attached, pendingAdd, disabled, checked,
                 u0, clicks>>

Next ==
  \/ Main
  \/ BodyParsed
  \/ DOMContentLoaded
  \/ AddOverlayTimeout
  \/ \E b \in Boxes : Toggle(b)
  \/ Close
  \/ U0Resume
  \/ Click
  \/ \E i \in 1..Len(handlers) : HandlerResume(i)

Spec == Init /\ [][Next]_vars

\* ------------------------------------------------- vocabulary of the claims
\* the runs of the handler the state holds
Runs == {handlers[i] : i \in 1..Len(handlers)}

\* the status lines of the surface a checkbox stands for
SuccessLine(b) ==
  CASE b = "l" -> "localStorage cleared"
    [] b = "s" -> "sessionStorage cleared"
    [] b = "c" -> "Cache Storage cleared"
    [] b = "w" -> "Service workers unregistered"
    [] b = "k" -> "Cookie cleanup attempted"

FailLine(b) ==
  CASE b = "l" -> "localStorage failed"
    [] b = "s" -> "sessionStorage failed"
    [] b = "c" -> "Cache Storage failed"
    [] b = "w" -> "Service workers failed"
    [] b = "k" -> "Cookie cleanup failed"

HasLine(h, line) == \E i \in 1..Len(h.log) : h.log[i] = line

CountLines(h, b) ==
  Cardinality({i \in 1..Len(h.log) : h.log[i] \in {SuccessLine(b), FailLine(b)}})

\* the API behind a checkbox, and the counts s and #stats hold for it
ApiOf(b) ==
  CASE b = "l" -> "ls" [] b = "s" -> "ss" [] b = "c" -> "c"
    [] b = "w" -> "sw" [] b = "k" -> "ck"

CountOf(r, b) == r[ApiOf(b)]

\* the run is inside the try block of b, suspended at one of its awaits
InBlock(h, b) ==
  \/ b = "c" /\ h.pc \in {"c_keys", "c_del"}
  \/ b = "w" /\ h.pc \in {"w_list", "w_del"}

\* the run read b as checked and has left b's try block
Passed(h, b) == h.sel[b] = "yes" /\ ~InBlock(h, b)

\* what the clear operation of b removes is gone
Cleared(b) ==
  IF b = "k" THEN Expired(store.ck) = {} ELSE Entries(store, b) = 0

\* the clear operation of b throws or rejects in this environment
Throws(h, b) ==
  CASE b \in {"l", "s"} -> env[ApiOf(b)] # "ok"
    [] b \in {"c", "w"} ->
         \/ env[ApiOf(b)] \in {"absent", "throws", "blocked"}
         \/ env[ApiOf(b)] = "readonly" /\ h.had[b] > 0
    [] b = "k" ->
         \/ env.ck = "throws"
         \/ env.ck = "readonly" /\ h.had[b] > 0

AllOk == \A f \in DOMAIN env : env[f] = "ok"

\* what the six surfaces hold
Actual ==
  [ls |-> store.ls, ss |-> store.ss, c |-> Cardinality(store.c),
   sw |-> Cardinality(store.sw), idb |-> store.idb, ck |-> CookieCount(store.ck)]

\* the start-up flow, the initial updateStats and every run have finished
Quiescent ==
  mainPc = "done" /\ u0.pc \notin UPcs /\ \A h \in Runs : ~IsLive(h)

UThrows == {"navigator.serviceWorker", "indexedDB.databases", "stats.innerHTML"}

\* the textual order of the five blocks of the handler
Order == <<"l", "s", "c", "w", "k">>
Pos(b) == CHOOSE i \in 1..Len(Order) : Order[i] = b

\* the checkbox whose block pushes a status line
BoxOfLine(line) == CHOOSE b \in Boxes : line \in {SuccessLine(b), FailLine(b)}

\* the run is past line 467: it wrote its result and called updateStats
Displayed(h) == h.pc \in UPcs \cup {"done"} \/ h.threw \in UThrows

\* what lines 461-467 write for a log
ResultOf(log) == IF Len(log) = 0 THEN NoneSelected ELSE Results(log)

\* the storage field behind a checkbox
Field(st, b) ==
  CASE b = "l" -> st.ls [] b = "s" -> st.ss [] b = "c" -> st.c
    [] b = "w" -> st.sw [] b = "k" -> st.ck

\* ------------------------------------------------------------------ claims

\* C1: detection never throws.  Whatever storage APIs are absent or throw,
\* no updateStats ends in a rejection raised by a storage access, and both
\* the start-up summary and #stats hold 0 for a surface that cannot be read.
C1_DetectionNeverThrows ==
  /\ \A r \in unhandled :
       r.threw \notin {"navigator.serviceWorker", "indexedDB.databases"}
  /\ mainPc = "done" =>
       \A b \in Boxes : ~Readable(env[ApiOf(b)]) => CountOf(s, b) = 0
  /\ stats # <<>> =>
       \A b \in Boxes : ~Readable(env[ApiOf(b)]) => CountOf(stats[1], b) = 0

\* C2: when a run read a box as checked while its surface held N > 0
\* entries, logged the surface's success line, and the platform lets a
\* script remove the entries (the API works), the report its updateStats
\* writes shows 0 for that surface.
C2_ClearedSurfaceReportsZero ==
  \A h \in Runs : \A b \in Boxes :
    (/\ h.report # <<>>
     /\ h.sel[b] = "yes"
     /\ h.had[b] > 0
     /\ HasLine(h, SuccessLine(b))
     /\ env[ApiOf(b)] = "ok")
    => CountOf(h.report[1], b) = 0

C3_SelectedAreCleared ==
  \A h \in Runs : \A b \in Boxes :
    Passed(h, b) =>
      /\ CountLines(h, b) = 1
      /\ env[ApiOf(b)] = "ok" => Cleared(b)

C4_IndependentFaultTolerance ==
  \A h \in Runs :
    /\ \A b \in Boxes :
         IF Passed(h, b)
           THEN /\ CountLines(h, b) = 1
                /\ HasLine(h, FailLine(b)) <=> Throws(h, b)
           ELSE CountLines(h, b) = 0
    /\ (h.pc \in UPcs \cup {"done"} \/ h.threw \in UThrows) =>
         /\ \A b \in Boxes : h.sel[b] \in {"yes", "no"}
         /\ Len(h.log) = Cardinality({b \in Boxes : h.sel[b] = "yes"})

C4_Witness ==
  \E h \in Runs : \E b1, b2 \in Boxes : \E i, j \in 1..Len(h.log) :
    /\ h.pc = "done"
    /\ i < j
    /\ h.log[i] = FailLine(b1)
    /\ h.log[j] = SuccessLine(b2)
    /\ h.had[b2] > 0

\* C5: a click with no checkbox checked writes "No items selected for
\* clearing." and leaves every storage surface as it was; the run goes
\* straight on to updateStats with an empty log.
C5_NothingSelected ==
  [][(clicks' = clicks + 1 /\ \A b \in Boxes : ~checked[b]) =>
       /\ store' = store
       /\ out' = NoneSelected
       /\ LET h == handlers'[Len(handlers')]
          IN h.log = <<>> /\ h.pc \in UPcs \cup {"done", "rejected"}
                          /\ h.threw \in UThrows \cup {""}]_vars

C5_Witness ==
  /\ out = NoneSelected
  /\ \E h \in Runs : h.trig = {} /\ h.pc = "done"
  /\ \E b \in Boxes : ~disabled[b] /\ Entries(store, b) > 0

\* C6: clearing an already-empty surface reports success.  When a run read
\* a box as checked while the surface held nothing, then once the try block
\* is left the log holds the surface's success line and no "failed" line,
\* and the surface still holds nothing.
C6_EmptySurfaceSucceeds ==
  \A h \in Runs : \A b \in Boxes :
    (Passed(h, b) /\ h.had[b] = 0) =>
      /\ HasLine(h, SuccessLine(b))
      /\ ~HasLine(h, FailLine(b))
      /\ Entries(store, b) = 0

C6_Witness ==
  \E h \in Runs : \E b \in Boxes :
    Passed(h, b) /\ h.had[b] = 0 /\ h.pc = "done"

\* C7: with every storage API working and no task rejected, once the
\* start-up flow, the initial updateStats and every run have finished,
\* #stats shows what the six surfaces hold now.
C7_StatsAreCurrent ==
  (AllOk /\ unhandled = {} /\ Quiescent) => stats = <<Actual>>

\* C8: there is one checkbox per clearable surface; once the overlay is
\* rendered a checkbox is disabled exactly when the start-up summary holds 0
\* for its surface, a disabled checkbox is never checked, and no run reads
\* as checked the box of a surface detected as empty.
C8_DisabledIffDetectedEmpty ==
  mainPc = "done" =>
    /\ DOMAIN disabled = Boxes
    /\ \A b \in Boxes :
         /\ disabled[b] <=> (CountOf(s, b) = 0)
         /\ checked[b] => ~disabled[b]
         /\ \A h \in Runs : h.sel[b] = "yes" => CountOf(s, b) > 0

C8_Witness ==
  /\ mainPc = "done"
  /\ \E b \in Boxes : disabled[b] /\ CountOf(s, b) = 0
  /\ \E b \in Boxes : ~disabled[b] /\ checked[b]
  /\ \E h \in Runs : \E b \in Boxes : h.sel[b] = "yes"

\* C9: there is no fatal error path.  Stated for the pages whose storage
\* APIs all work (so that no storage access can be what throws): no task
\* ends in an unhandled rejection, whether or not the document has a body
\* at start-up and whether or not the overlay is in the document.
C9_NoFatalErrorPath ==
  (\A f \in DOMAIN env : env[f] = "ok") => unhandled = {}

\* C10: no cancellation.  A run that has ended has a status line for every
\* surface whose box was checked when it was triggered, and its
\* re-detection ran (to its end, or to an exception of updateStats' own).
C10_NoCancellation ==
  \A h \in Runs :
    h.pc \in {"done", "rejected"} =>
      /\ \A b \in h.trig : CountLines(h, b) = 1
      /\ h.pc = "done" \/ h.threw \in UThrows

\* C11: within one run the five operations go one after another in the order
\* localStorage, sessionStorage, Cache Storage, service workers, cookies.  A
\* checkbox is read only when every earlier block has been left (with its
\* status line pushed), the status lines stand in the log in that order, a
\* block the run is suspended in has no line yet, the result is written by
\* the step that leaves the last block, with the whole log, and updateStats
\* is entered (and writes #stats) only from there on.
C11_InOrder ==
  \A h \in Runs :
    /\ \A p, q \in 1..Len(h.log) :
         p < q => Pos(BoxOfLine(h.log[p])) < Pos(BoxOfLine(h.log[q]))
    /\ \A b1, b2 \in Boxes :
         (Pos(b1) < Pos(b2) /\ h.sel[b2] # "unread") =>
           /\ h.sel[b1] # "unread"
           /\ ~InBlock(h, b1)
           /\ h.sel[b1] = "yes" => CountLines(h, b1) = 1
    /\ \A b \in Boxes : InBlock(h, b) => CountLines(h, b) = 0
    /\ Displayed(h) =>
         \A b \in Boxes : h.sel[b] \in {"yes", "no"} /\ ~InBlock(h, b)
    /\ h.report # <<>> => Displayed(h)

C11_FixedOrder ==
  /\ [](DOMAIN checked = Boxes /\ C11_InOrder)
  /\ [][/\ \A h \in Runs' :
            (/\ Displayed(h)
             /\ \A g \in Runs : ~(/\ Displayed(g) /\ g.log = h.log
                                    /\ g.trig = h.trig /\ g.sel = h.sel))
            => out' = ResultOf(h.log)
        /\ out' # out => \E h \in Runs' : Displayed(h) /\ out' = ResultOf(h.log)
        /\ stats' # stats =>
             \/ u0' # u0
             \/ \E h \in Runs' : h.report = <<stats'[1]>> /\ Displayed(h)]_vars

C11_Witness ==
  \E h \in Runs :
    /\ h.pc = "done"
    /\ Len(h.log) = 2
    /\ out = Results(h.log)
    /\ \E b1, b2 \in Boxes :
         /\ Pos(b1) < Pos(b2)
         /\ h.had[b1] > 0 /\ h.had[b2] > 0
         /\ h.log[1] \in {SuccessLine(b1), FailLine(b1)}
         /\ h.log[2] \in {SuccessLine(b2), FailLine(b2)}

\* C12: the frame of a pass.  A step changes the entries of a surface only
\* when it is a step of a run that read the surface's checkbox as checked and
\* is inside the surface's block or pushes its success line in that step; so
\* a surface whose box the run read as unchecked keeps its entries.  The
\* start-up detection and the initial updateStats change no surface, and the
\* IndexedDB databases are never changed.
C12_Frame ==
  [][/\ \A b \in Boxes :
          Field(store', b) # Field(store, b) =>
            \E h \in Runs' :
              /\ h \notin Runs
              /\ h.sel[b] = "yes"
              /\ \/ InBlock(h, b)
                 \/ /\ HasLine(h, SuccessLine(b))
                    /\ \A g \in Runs : g.log # h.log
     /\ store'.idb = store.idb
     /\ (mainPc' # mainPc \/ u0' # u0) => store' = store]_vars

C12_Witness ==
  \E h \in Runs : \E b1, b2 \in Boxes :
    /\ h.pc = "done"
    /\ h.sel[b1] = "yes" /\ h.had[b1] > 0 /\ Entries(store, b1) = 0
    /\ h.sel[b2] = "no" /\ ~disabled[b2] /\ Entries(store, b2) > 0

====
